---- MODULE Spec2Model ----
(***************************************************************************)
(* Model of microosc.py: the OSC string codec (read_string, pack_string),  *)
(* the packet parser and builder (parse_osc_packet, create_osc_packet),    *)
(* and the UDP endpoints OSCServer (poll, _dispatch) and OSCClient (send). *)
(*                                                                         *)
(* A Python bytes/bytearray is a sequence of integers 0..255; a Python str *)
(* is a sequence of character codes.  Python positions are 0-based, so     *)
(* data[p] of the source is data[p + 1] here.                              *)
(*                                                                         *)
(* A Python value (an element of OscMsg.args) is a record [ty, v]:         *)
(*   [ty |-> "int",   v |-> <<n>>]         an int                          *)
(*   [ty |-> "str",   v |-> <<codes>>]     a str                           *)
(*   [ty |-> "float", v |-> <<s, m, e>>]   the double (-1)^s * m * 2^e,    *)
(*                                         m odd, or m = 0 and e = 0       *)
(* An exception is the name of its class; "none" means a normal return.    *)
(***************************************************************************)
EXTENDS Integers, Sequences, FiniteSets, TLC

VARIABLES
    srv_buf,        \* OSCServer._buf
    dispatch_map,   \* OSCServer.dispatch_map: sequence of <<prefix, handler>>
    srv_ret,        \* what the last call on the server did (poll / _dispatch)
    cli_buf,        \* OSCClient._buf
    cli_ret,        \* what the last OSCClient.send did
    c_pc,           \* codec scenario: which call was made last
    c_in,           \* codec scenario: the caller's inputs
    c_data,         \* codec scenario: the caller's bytearray
    c_out           \* codec scenario: what the calls returned

vars == <<srv_buf, dispatch_map, srv_ret, cli_buf, cli_ret, c_pc, c_in, c_data, c_out>>

srv_vars == <<srv_buf, dispatch_map, srv_ret>>
cli_vars == <<cli_buf, cli_ret>>
codec_vars == <<c_pc, c_in, c_data, c_out>>

----------------------------------------------------------------------------
(* Bounds of the model *)

\* OSCServer's buf_size (128 by default in _server_start): kept small so that
\* a datagram can fill the whole receive buffer.
SrvBufSize == 12

\* OSCClient's buf_size (128 by default in __init__): kept small so that a
\* message can be larger than the send buffer.
CliBufSize == 8

\* longest string handed to pack_string in the string scenario
MaxStrLen == 5

\* largest start position handed to pack_string in the string scenario
MaxPos == 5

\* most arguments of a message handed to create_osc_packet
MaxArgs == 2

----------------------------------------------------------------------------
(* Characters and Python sequence primitives *)

Ord(ch) ==
    CASE ch = "\\0" -> 0
      [] ch = " " -> 32
      [] ch = "," -> 44
      [] ch = "/" -> 47
      [] ch = "1" -> 49
      [] ch = "2" -> 50
      [] ch = ":" -> 58
      [] ch = "a" -> 97
      [] ch = "b" -> 98
      [] ch = "e" -> 101
      [] ch = "f" -> 102
      [] ch = "i" -> 105
      [] ch = "k" -> 107
      [] ch = "n" -> 110
      [] ch = "o" -> 111
      [] ch = "p" -> 112
      [] ch = "s" -> 115
      [] ch = "t" -> 116
      [] ch = "u" -> 117
      [] ch = "w" -> 119
      [] ch = "x" -> 120
      [] ch = "y" -> 121
      [] ch = "\\xe9" -> 233

\* a str literal, written as the tuple of its characters
Str(chars) == [k \in 1..Len(chars) |-> Ord(chars[k])]

Min(a, b) == IF a <= b THEN a ELSE b
Max(a, b) == IF a >= b THEN a ELSE b

Zeros(n) == [k \in 1..n |-> 0]

\* data[a:b] for 0 <= a, b: both ends are clamped to len(data)
Slice(data, a, b) ==
    LET lo == Min(a, Len(data))
        hi == Min(b, Len(data))
    IN  IF hi <= lo THEN <<>> ELSE SubSeq(data, lo + 1, hi)

\* data[a:b] = v on a bytearray: the clamped slice is replaced by v, and the
\* bytearray grows or shrinks when len(v) differs from the slice's length
SliceAssign(data, a, b, v) ==
    LET lo == Min(a, Len(data))
        hi == Max(lo, Min(b, Len(data)))
    IN  SubSeq(data, 1, lo) \o v \o SubSeq(data, hi + 1, Len(data))

\* data.index(b"\x00", pos): the first position >= pos holding a null, over the
\* whole of data; -1 stands for the ValueError raised when there is none
Index0(data, pos) ==
    LET hits == {p \in pos..(Len(data) - 1) : data[p + 1] = 0}
    IN  IF hits = {} THEN -1
        ELSE CHOOSE p \in hits : \A q \in hits : p <= q

\* str(b, "ascii") accepts only bytes below 128
IsAscii(b) == \A k \in 1..Len(b) : b[k] < 128

----------------------------------------------------------------------------
(* struct.pack / struct.unpack for ">i" and ">f" *)

Pow2(n) == 2^n

\* struct.pack(">i", v): big-endian two's complement, v in the int32 range
PackInt(v) ==
    << (v \div 16777216) % 256, (v \div 65536) % 256, (v \div 256) % 256, v % 256 >>

\* struct.unpack(">i", b)[0] for len(b) = 4
UnpackInt(b) ==
    (IF b[1] >= 128 THEN b[1] - 256 ELSE b[1]) * 16777216
        + b[2] * 65536 + b[3] * 256 + b[4]

\* number of bits of m > 0
RECURSIVE BitLen(_)
BitLen(m) == IF m = 0 THEN 0 ELSE 1 + BitLen(m \div 2)

\* the double (-1)^s * m * 2^e in its canonical form (m odd, or zero)
RECURSIVE Canon(_, _, _)
Canon(s, m, e) ==
    IF m = 0 THEN <<s, 0, 0>>
    ELSE IF m % 2 = 0 THEN Canon(s, m \div 2, e + 1)
    ELSE <<s, m, e>>

\* struct.pack(">f", d): d is rounded to the nearest float32 (24 significant
\* bits, ties to even) and written as sign, 8-bit exponent, 23-bit fraction.
\* Covers the doubles whose float32 is zero or normal.
PackFloat(d) ==
    LET s == d[1]
        m == d[2]
        e == d[3]
        L == BitLen(m)
        k == IF L > 24 THEN L - 24 ELSE 0
        q0 == m \div Pow2(k)                  \* the 24 leading bits
        r == m % Pow2(k)                      \* what is rounded away
        half == IF k = 0 THEN 0 ELSE Pow2(k - 1)
        up == k > 0 /\ (r > half \/ (r = half /\ q0 % 2 = 1))
        q1 == IF up THEN q0 + 1 ELSE q0
        carry == q1 = 16777216
        sig == IF carry THEN 8388608
               ELSE IF L >= 24 THEN q1 ELSE q1 * Pow2(24 - L)
        E == e + L - 1 + (IF carry THEN 1 ELSE 0) + 127
        F == sig - 8388608
    IN  IF m = 0 THEN << s * 128, 0, 0, 0 >>
        ELSE << s * 128 + E \div 2, (E % 2) * 128 + F \div 65536,
                (F \div 256) % 256, F % 256 >>

\* struct.unpack(">f", b)[0] for len(b) = 4: the double equal to the float32.
\* An infinity or a NaN (exponent field 255) is <<s, fraction, 1000>>.
UnpackFloat(b) ==
    LET s == b[1] \div 128
        E == (b[1] % 128) * 2 + b[2] \div 128
        F == (b[2] % 128) * 65536 + b[3] * 256 + b[4]
    IN  IF E = 255 THEN <<s, F, 1000>>
        ELSE IF E = 0 THEN Canon(s, F, -149)
        ELSE Canon(s, 8388608 + F, E - 150)

----------------------------------------------------------------------------
(* The string codec *)

\* read_string with the terminator forgotten in the padded length
read_string_no_terminator(data, pos) ==
    LET str_end == Index0(data, pos)
        str_len == str_end - pos
        padded_len == ((str_len + 3) \div 4) * 4
        raw == Slice(data, pos, pos + str_len)
    IN  IF str_end = -1 THEN [exc |-> "ValueError", str |-> <<>>, pos |-> pos]
        ELSE IF ~IsAscii(raw) THEN [exc |-> "UnicodeError", str |-> <<>>, pos |-> pos]
        ELSE [exc |-> "none", str |-> raw, pos |-> pos + padded_len]

\* read_string(data, pos): the string up to the first null at or after pos,
\* and the position after its padded region.  The null is searched in the whole
\* of data.  exc is "ValueError" when data.index finds no null, "UnicodeError"
\* when str(..., "ascii") meets a byte above 127.
read_string(data, pos) ==
    LET str_end == Index0(data, pos)
        str_len == str_end - pos
        padded_len == (str_len \div 4 + 1) * 4
        raw == Slice(data, pos, pos + str_len)
    IN  IF str_end = -1 THEN [exc |-> "ValueError", str |-> <<>>, pos |-> pos]
        ELSE IF ~IsAscii(raw) THEN [exc |-> "UnicodeError", str |-> <<>>, pos |-> pos]
        ELSE [exc |-> "none", str |-> raw, pos |-> pos + padded_len]

\* pack_string with the padding computed from len(astr) instead of n
pack_string_pad_of_len(astr, data, pos) ==
    LET n == Len(astr) + 1
        pos_end == pos + n
        data1 == SliceAssign(data, pos, pos_end, astr \o <<0>>)
        pad_needed == Len(astr) % 4
        extra == 4 - pad_needed
    IN  IF pad_needed # 0
        THEN [data |-> SliceAssign(data1, pos_end, pos_end + extra, Zeros(extra)),
              pos |-> pos_end + extra]
        ELSE [data |-> data1, pos |-> pos_end]

\* pack_string(astr, data, pos) for an ASCII str: data after the two slice
\* assignments, and the new end position
pack_string(astr, data, pos) ==
    LET n == Len(astr) + 1
        pos_end == pos + n
        data1 == SliceAssign(data, pos, pos_end, astr \o <<0>>)
        pad_needed == n % 4
        extra == 4 - pad_needed
    IN  IF pad_needed # 0
        THEN [data |-> SliceAssign(data1, pos_end, pos_end + extra, Zeros(extra)),
              pos |-> pos_end + extra]
        ELSE [data |-> data1, pos |-> pos_end]

----------------------------------------------------------------------------
(* The packet parser *)

\* OscMsg(addr, args, types)
OscMsg(addr, args, types) == [addr |-> addr, args |-> args, types |-> types]

NoMsg == OscMsg(<<>>, <<>>, <<>>)

PyInt(n) == [ty |-> "int", v |-> <<n>>]
PyFloat(d) == [ty |-> "float", v |-> d]
PyStr(s) == [ty |-> "str", v |-> s]

\* the loop "for otype in osctypes" of parse_osc_packet from its k-th
\* character on; st is [exc, dpos, args, types].  struct.unpack raises
\* struct.error when the slice data[dpos : dpos + 4] is shorter than 4 bytes.
RECURSIVE parse_args(_, _, _, _)
parse_args(data, osctypes, k, st) ==
    IF k > Len(osctypes) \/ st.exc # "none" THEN st
    ELSE
      LET otype == osctypes[k]
          word == Slice(data, st.dpos, st.dpos + 4)
          rs == read_string(data, st.dpos)
          next ==
            IF otype = Ord("f") THEN
                IF Len(word) # 4 THEN [st EXCEPT !.exc = "struct.error"]
                ELSE [st EXCEPT !.args = Append(@, PyFloat(UnpackFloat(word))),
                                !.types = Append(@, Ord("f")),
                                !.dpos = @ + 4]
            ELSE IF otype = Ord("i") THEN
                IF Len(word) # 4 THEN [st EXCEPT !.exc = "struct.error"]
                ELSE [st EXCEPT !.args = Append(@, PyInt(UnpackInt(word))),
                                !.types = Append(@, Ord("i")),
                                !.dpos = @ + 4]
            ELSE IF otype = Ord("s") THEN
                IF rs.exc # "none" THEN [st EXCEPT !.exc = rs.exc]
                ELSE [st EXCEPT !.args = Append(@, PyStr(rs.str)),
                                !.types = Append(@, Ord("s")),
                                !.dpos = rs.pos]
            ELSE IF otype = 0 THEN st
            ELSE [st EXCEPT !.args =
                    Append(@, PyStr(Str(<<"u", "n", "k", "n", "o", "w", "n", " ",
                                          "t", "y", "p", "e", ":">>) \o <<otype>>))]
      IN  parse_args(data, osctypes, k + 1, next)

\* parse_osc_packet(data, packet_size): [exc, msg]; msg is the OscMsg returned
\* when exc = "none".  The body never reads packet_size.
parse_osc_packet(data, packet_size) ==
    LET r1 == read_string(data, 0)
        r2 == read_string(data, r1.pos)
        osctypes == SubSeq(r2.str, 2, Len(r2.str))
        st == parse_args(data, osctypes, 1,
                         [exc |-> "none", dpos |-> r2.pos, args |-> <<>>, types |-> <<>>])
    IN  IF r1.exc # "none" THEN [exc |-> r1.exc, msg |-> NoMsg]
        ELSE IF r2.exc # "none" THEN [exc |-> r2.exc, msg |-> NoMsg]
        ELSE IF st.exc # "none" THEN [exc |-> st.exc, msg |-> NoMsg]
        ELSE [exc |-> "none", msg |-> OscMsg(r1.str, st.args, st.types)]

----------------------------------------------------------------------------
(* The packet builder *)

\* float(oarg): [exc, d]
float(oarg) ==
    IF oarg.ty = "float" THEN [exc |-> "none", d |-> oarg.v]
    ELSE IF oarg.ty = "int"
         THEN [exc |-> "none",
               d |-> Canon(IF oarg.v[1] < 0 THEN 1 ELSE 0,
                           IF oarg.v[1] < 0 THEN -oarg.v[1] ELSE oarg.v[1], 0)]
    ELSE [exc |-> "ValueError", d |-> <<0, 0, 0>>]

\* int(oarg): [exc, n]; a float is truncated towards zero
int(oarg) ==
    IF oarg.ty = "int" THEN [exc |-> "none", n |-> oarg.v[1]]
    ELSE IF oarg.ty = "float"
         THEN LET s == oarg.v[1]
                  m == oarg.v[2]
                  e == oarg.v[3]
                  mag == IF e >= 0 THEN m * Pow2(e) ELSE m \div Pow2(-e)
              IN  [exc |-> "none", n |-> IF s = 1 THEN -mag ELSE mag]
    ELSE [exc |-> "ValueError", n |-> 0]

\* the loop "for oarg, otype in zip(msg.args, msg.types)" of create_osc_packet
\* from its k-th pair on; st is [exc, data, pos].  len(oarg) of a value that
\* is no str raises TypeError inside pack_string.
RECURSIVE create_args(_, _, _)
create_args(msg, k, st) ==
    IF k > Min(Len(msg.args), Len(msg.types)) \/ st.exc # "none" THEN st
    ELSE
      LET oarg == msg.args[k]
          otype == msg.types[k]
          fl == float(oarg)
          in == int(oarg)
          ps == pack_string(oarg.v, st.data, st.pos)
          next ==
            IF otype = Ord("f") THEN
                IF fl.exc # "none" THEN [st EXCEPT !.exc = fl.exc]
                ELSE [st EXCEPT !.data = SliceAssign(@, st.pos, st.pos + 4, PackFloat(fl.d)),
                                !.pos = @ + 4]
            ELSE IF otype = Ord("i") THEN
                IF in.exc # "none" THEN [st EXCEPT !.exc = in.exc]
                ELSE [st EXCEPT !.data = SliceAssign(@, st.pos, st.pos + 4, PackInt(in.n)),
                                !.pos = @ + 4]
            ELSE IF otype = Ord("s") THEN
                IF oarg.ty # "str" THEN [st EXCEPT !.exc = "TypeError"]
                ELSE [st EXCEPT !.data = ps.data, !.pos = ps.pos]
            ELSE st
      IN  create_args(msg, k + 1, next)

\* create_osc_packet(msg, data): [exc, data, pos]; pos is the returned size and
\* data the caller's bytearray after the call
create_osc_packet(msg, data) ==
    LET p1 == pack_string(msg.addr, data, 0)
        p2 == pack_string(<<Ord(",")>> \o msg.types, p1.data, p1.pos)
        st0 == [exc |-> "none", data |-> p2.data, pos |-> p2.pos]
    IN  IF Len(msg.args) > 0 THEN create_args(msg, 1, st0) ELSE st0

----------------------------------------------------------------------------
(* Inputs of the codec scenarios *)

SeqsUpTo(S, n) == UNION {[1..k -> S] : k \in 0..n}

Fill(n) == [k \in 1..n |-> Ord("x")]

\* strings handed to pack_string: every string over a letter, a slash and the
\* null character
StrAlphabet == {0, Ord("a"), Ord("/")}
StringInputs ==
    [kind : {"string"},
     astr : SeqsUpTo(StrAlphabet, MaxStrLen),
     pos : 0..MaxPos,
     data : {<<>>, Fill(4), Fill(MaxPos + 8)}]

IntVals == {-1, 42, -2147483647 - 1, 2147483647}
\* 0.5, -2.5 and 3.0 are float32 values; 1 + 2^-24 and 1 + 3 * 2^-24 are not
FloatVals == {<<0, 1, -1>>, <<1, 5, -1>>, <<0, 16777217, -24>>, <<0, 16777219, -24>>}
StrVals == {<<>>, Str(<<"a", "b", "x">>), Str(<<"a", "b", "x", "y">>)}

\* a tag with a value of the type it names
TypedPairs ==
    ({Ord("i")} \X {PyInt(n) : n \in IntVals})
        \cup ({Ord("f")} \X {PyFloat(d) : d \in FloatVals})
        \cup ({Ord("s")} \X {PyStr(t) : t \in StrVals})

Addrs == {Str(<<"/", "a">>), Str(<<"/", "1", "/", "a">>)}

TypedMsgs ==
    {OscMsg(a, [k \in 1..Len(ps) |-> ps[k][2]], [k \in 1..Len(ps) |-> ps[k][1]]) :
        a \in Addrs, ps \in SeqsUpTo(TypedPairs, MaxArgs)}

\* messages outside the data model: a null inside a string, a tag outside
\* {f,i,s}, a tag without argument, an argument without tag, a value of
\* another type than its tag names
OtherMsgs ==
    { OscMsg(Str(<<"/", "a", "\\0", "b">>), <<>>, <<>>),
      OscMsg(Str(<<"/", "a">>), <<PyStr(Str(<<"a", "\\0", "b">>))>>, Str(<<"s">>)),
      OscMsg(Str(<<"/", "a">>), <<PyInt(42)>>, Str(<<"x">>)),
      OscMsg(Str(<<"/", "a">>), <<PyInt(42)>>, Str(<<"i", "i">>)),
      OscMsg(Str(<<"/", "a">>), <<PyInt(42), PyInt(-1)>>, Str(<<"i">>)),
      OscMsg(Str(<<"/", "a">>), <<PyFloat(<<1, 5, -1>>)>>, Str(<<"i">>)),
      OscMsg(Str(<<"/", "a">>), <<PyInt(42)>>, Str(<<"f">>)),
      OscMsg(Str(<<"/", "a">>), <<PyStr(Str(<<"a", "b", "x">>))>>, Str(<<"f">>)),
      OscMsg(Str(<<"/", "a">>), <<PyInt(42)>>, Str(<<"s">>)) }

Messages == TypedMsgs \cup OtherMsgs

MsgInputs ==
    [kind : {"msg"},
     msg : Messages,
     data : {<<>>, Fill(7), Fill(8 * MaxArgs + 20)}]

----------------------------------------------------------------------------
(* The endpoints as constructed *)

\* default_dispatch_map
default_dispatch_map == << <<Str(<<"/">>), "default">> >>

\* OSCServer.__init__ / _server_start: the dispatch table given, or the default
\* one when none (or an empty one) is given; a zeroed receive buffer
ServerInit(table) ==
    /\ dispatch_map = IF table = <<>> THEN default_dispatch_map ELSE table
    /\ srv_buf = Zeros(SrvBufSize)
    /\ srv_ret = [op |-> "init", recv |-> "none", datagram |-> <<>>, datasize |-> 0,
                  exc |-> "none", parsed |-> [exc |-> "none", msg |-> NoMsg],
                  calls |-> <<>>]

\* OSCClient.__init__: a zeroed send buffer
ClientInit ==
    /\ cli_buf = Zeros(CliBufSize)
    /\ cli_ret = [op |-> "init", msg |-> NoMsg, exc |-> "none", size |-> 0,
                  sent |-> <<>>]

----------------------------------------------------------------------------
(* The codec scenarios: pack_string then read_string on the bytes written,  *)
(* create_osc_packet then parse_osc_packet with the returned length         *)

CodecInit ==
    /\ c_pc = "start"
    /\ (c_in \in StringInputs \/ c_in \in MsgInputs)
    /\ c_data = c_in.data
    /\ c_out = [exc |-> "none", pos |-> 0]
    /\ ServerInit(<<>>)
    /\ ClientInit

\* pos_end = pack_string(astr, data, pos)
PackString ==
    /\ c_pc = "start"
    /\ c_in.kind = "string"
    /\ LET r == pack_string(c_in.astr, c_data, c_in.pos)
       IN  /\ c_data' = r.data
           /\ c_out' = [exc |-> "none", pos |-> r.pos]
    /\ c_pc' = "packed"
    /\ UNCHANGED <<c_in, srv_vars, cli_vars>>

\* read_string(data, pos) on the bytes pack_string wrote
ReadString ==
    /\ c_pc = "packed"
    /\ c_out' = [exc |-> "none", pos |-> c_out.pos, rs |-> read_string(c_data, c_in.pos)]
    /\ c_pc' = "read"
    /\ UNCHANGED <<c_in, c_data, srv_vars, cli_vars>>

\* size = create_osc_packet(msg, data)
CreatePacket ==
    /\ c_pc = "start"
    /\ c_in.kind = "msg"
    /\ LET r == create_osc_packet(c_in.msg, c_data)
       IN  /\ c_data' = r.data
           /\ c_out' = [exc |-> r.exc, pos |-> r.pos]
    /\ c_pc' = "built"
    /\ UNCHANGED <<c_in, srv_vars, cli_vars>>

\* parse_osc_packet(data, size) with the size create_osc_packet returned
ParsePacket ==
    /\ c_pc = "built"
    /\ c_out.exc = "none"
    /\ c_out' = [exc |-> "none", pos |-> c_out.pos,
                 parsed |-> parse_osc_packet(c_data, c_out.pos)]
    /\ c_pc' = "parsed"
    /\ UNCHANGED <<c_in, c_data, srv_vars, cli_vars>>

CodecNext == PackString \/ ReadString \/ CreatePacket \/ ParsePacket

SpecCodec == CodecInit /\ [][CodecNext]_vars

----------------------------------------------------------------------------
(* OSCServer *)

\* most entries of a dispatch table given to OSCServer
MaxTable == 2

\* longest address handed to _dispatch directly
MaxAddrLen == 3

\* msg.addr.startswith(addr)
startswith(str, prefix) ==
    /\ Len(prefix) <= Len(str)
    /\ SubSeq(str, 1, Len(prefix)) = prefix

\* the loop of _dispatch from the k-th entry of the table on: the handlers
\* called, in order, each as <<prefix, handler>>
RECURSIVE dispatch_from(_, _, _)
dispatch_from(table, msg, k) ==
    IF k > Len(table) THEN <<>>
    ELSE (IF startswith(msg.addr, table[k][1]) THEN <<table[k]>> ELSE <<>>)
            \o dispatch_from(table, msg, k + 1)

\* _dispatch stopping at the first matching entry
dispatch_first_match(table, msg) ==
    LET all == dispatch_from(table, msg, 1)
    IN  IF all = <<>> THEN <<>> ELSE <<all[1]>>

\* _dispatch(msg): the calls func(msg) it makes
dispatch(table, msg) == dispatch_from(table, msg, 1)

Prefixes == {Str(<<"/">>), Str(<<"/", "1">>), Str(<<"/", "2">>)}
Handlers == {"h1", "h2"}

\* a dict has one entry per key
Tables ==
    {t \in SeqsUpTo(Prefixes \X Handlers, MaxTable) :
        \A j, k \in 1..Len(t) : j # k => t[j][1] # t[k][1]}

DispatchAddrs == SeqsUpTo({Ord("/"), Ord("1"), Ord("2")}, MaxAddrLen)

\* datagrams the socket may deliver, none longer than the receive buffer
Datagrams ==
    { \* "/1" ,i 42
      Str(<<"/", "1", "\\0", "\\0", ",", "i", "\\0", "\\0">>) \o PackInt(42),
      \* "/2" with an empty tag string
      Str(<<"/", "2", "\\0", "\\0", ",", "\\0", "\\0", "\\0">>),
      \* "/a" ,s "ab"
      Str(<<"/", "a", "\\0", "\\0", ",", "s", "\\0", "\\0", "a", "b", "\\0", "\\0">>),
      \* "/a" ,f 0.5
      Str(<<"/", "a", "\\0", "\\0", ",", "f", "\\0", "\\0">>) \o PackFloat(<<0, 1, -1>>),
      \* an address and nothing else
      Str(<<"/", "1", "\\0", "\\0">>),
      \* an address without its null
      Str(<<"/", "a", "b", "x">>),
      \* an int announced and not sent
      Str(<<"/", "1", "\\0", "\\0", ",", "i", "\\0", "\\0">>),
      \* a string argument without its null
      Str(<<"/", "2", "\\0", "\\0", ",", "s", "\\0", "\\0", "a", "b">>),
      \* two ints announced, one sent
      Str(<<"/", "1", "\\0", "\\0", ",", "i", "i", "\\0">>) \o PackInt(-1),
      \* a tag outside {f,i,s}
      Str(<<"/", "a", "\\0", "\\0", ",", "x", "\\0", "\\0">>),
      \* a byte that is not ASCII
      Str(<<"/", "\\xe9", "\\0", "\\0", ",", "\\0", "\\0", "\\0">>),
      \* no null at all, as long as the receive buffer
      Fill(SrvBufSize) }

ServerRet(op, recv, d, exc, parsed, calls) ==
    [op |-> op, recv |-> recv, datagram |-> d, datasize |-> Len(d), exc |-> exc,
     parsed |-> parsed, calls |-> calls]

NotParsed == [exc |-> "none", msg |-> NoMsg]

\* poll() when recvfrom_into raises the OSError of a timeout: caught, pass
PollTimeout ==
    /\ srv_ret' = ServerRet("poll", "timeout", <<>>, "none", NotParsed, <<>>)
    /\ UNCHANGED <<srv_buf, dispatch_map, cli_vars, codec_vars>>

\* poll() when recvfrom_into raises any other OSError (a transport failure):
\* caught by the same except OSError, pass
PollIOError ==
    /\ srv_ret' = ServerRet("poll", "ioerror", <<>>, "none", NotParsed, <<>>)
    /\ UNCHANGED <<srv_buf, dispatch_map, cli_vars, codec_vars>>

\* poll() when recvfrom_into stores datagram d at the start of _buf: the buffer
\* is parsed and the message dispatched; an exception of parse_osc_packet is
\* no OSError and leaves poll()
PollDatagram(d) ==
    LET buf == d \o SubSeq(srv_buf, Len(d) + 1, Len(srv_buf))
        datasize == Len(d)
        parsed == parse_osc_packet(buf, datasize)
    IN  /\ srv_buf' = buf
        /\ srv_ret' =
             IF parsed.exc # "none"
             THEN ServerRet("poll", "data", d, parsed.exc, parsed, <<>>)
             ELSE ServerRet("poll", "data", d, "none", parsed,
                            dispatch(dispatch_map, parsed.msg))
        /\ UNCHANGED <<dispatch_map, cli_vars, codec_vars>>

\* _dispatch(msg) called with a message of the caller
Dispatch(msg) ==
    /\ srv_ret' = ServerRet("_dispatch", "none", <<>>, "none",
                            [exc |-> "none", msg |-> msg],
                            dispatch(dispatch_map, msg))
    /\ UNCHANGED <<srv_buf, dispatch_map, cli_vars, codec_vars>>

CodecIdle ==
    /\ c_pc = "start"
    /\ c_in = [kind |-> "none"]
    /\ c_data = <<>>
    /\ c_out = [exc |-> "none", pos |-> 0]

\* the tables of the polling server: none given, and two overlapping prefixes
PollTables ==
    { <<>>,
      << <<Str(<<"/", "1">>), "h1">>, <<Str(<<"/">>), "h2">> >> }

\* a server polled in a loop
ServerSpecInit ==
    /\ \E table \in PollTables : ServerInit(table)
    /\ ClientInit
    /\ CodecIdle

ServerNext ==
    \/ PollTimeout
    \/ PollIOError
    \/ \E d \in Datagrams : Len(d) <= Len(srv_buf) /\ PollDatagram(d)

SpecServer == ServerSpecInit /\ [][ServerNext]_vars

\* _dispatch applied to any table and any address
DispatchSpecInit ==
    /\ \E table \in Tables : ServerInit(table)
    /\ ClientInit
    /\ CodecIdle

DispatchNext == \E a \in DispatchAddrs : Dispatch(OscMsg(a, <<>>, <<>>))

SpecDispatch == DispatchSpecInit /\ [][DispatchNext]_vars

----------------------------------------------------------------------------
(* OSCClient *)

\* messages handed to send: those with at most one argument
ClientMsgs == {m \in Messages : Len(m.args) <= 1 /\ Len(m.types) <= 1}

ClientRet(msg, exc, size, sent) ==
    [op |-> "send", msg |-> msg, exc |-> exc, size |-> size, sent |-> sent]

\* send(msg) when sendto succeeds: the packet is built into _buf; an exception
\* of create_osc_packet leaves send with _buf as far as it was written;
\* otherwise _buf[:pkt_size] is handed to sendto
Send(msg) ==
    LET r == create_osc_packet(msg, cli_buf)
    IN  /\ cli_buf' = r.data
        /\ cli_ret' =
             IF r.exc # "none" THEN ClientRet(msg, r.exc, 0, <<>>)
             ELSE ClientRet(msg, "none", r.pos, Slice(r.data, 0, r.pos))
        /\ UNCHANGED <<srv_vars, codec_vars>>

\* send(msg) when sendto raises OSError: the packet was built, the error leaves send
SendRaisesOSError(msg) ==
    LET r == create_osc_packet(msg, cli_buf)
    IN  /\ r.exc = "none"
        /\ cli_buf' = r.data
        /\ cli_ret' = ClientRet(msg, "OSError", r.pos, <<>>)
        /\ UNCHANGED <<srv_vars, codec_vars>>

ClientSpecInit ==
    /\ ClientInit
    /\ ServerInit(<<>>)
    /\ CodecIdle

ClientNext ==
    \/ \E msg \in ClientMsgs : Send(msg)
    \/ \E msg \in ClientMsgs : SendRaisesOSError(msg)

SpecClient == ClientSpecInit /\ [][ClientNext]_vars

----------------------------------------------------------------------------
(* Claims about the codec, checked under SpecCodec *)

NoNull(str) == \A k \in 1..Len(str) : str[k] # 0

\* a double that struct.pack(">f") stores exactly: at most 24 significant bits
IsFloat32(d) == BitLen(d[2]) <= 24

\* the tag names the type of the value
TagOf(val) ==
    IF val.ty = "int" THEN Ord("i") ELSE IF val.ty = "float" THEN Ord("f") ELSE Ord("s")

\* a message of the data model: strings without null, one tag in {f,i,s} per
\* argument, each naming the type of its argument
IsDataModelMsg(msg) ==
    /\ NoNull(msg.addr)
    /\ Len(msg.args) = Len(msg.types)
    /\ \A k \in 1..Len(msg.args) :
         /\ msg.types[k] = TagOf(msg.args[k])
         /\ msg.args[k].ty = "str" => NoNull(msg.args[k].v)

FloatsAreFloat32(msg) ==
    \A k \in 1..Len(msg.args) : msg.args[k].ty = "float" => IsFloat32(msg.args[k].v)

RoundTripped ==
    /\ c_out.parsed.exc = "none"
    /\ c_out.parsed.msg = c_in.msg

\* C1 as stated: building any message of the data model (any float values) into
\* a buffer and parsing it with the returned length gives the message back
C1_RoundTripAnyFloat ==
    (c_pc = "parsed" /\ IsDataModelMsg(c_in.msg)) => RoundTripped

\* C1 amended: building a message of the data model whose float arguments are
\* exactly representable as float32 into a buffer, whatever it held and whatever
\* its length, and parsing it with the returned length gives back the same
\* address, arguments and type tags
C1_RoundTripFloat32 ==
    (c_pc = "parsed" /\ IsDataModelMsg(c_in.msg) /\ FloatsAreFloat32(c_in.msg))
        => RoundTripped

\* the round trip of a message with a float, a string and stale bytes in the buffer
C1_Witness ==
    /\ c_pc = "parsed"
    /\ IsDataModelMsg(c_in.msg) /\ FloatsAreFloat32(c_in.msg)
    /\ Len(c_in.msg.args) = 2
    /\ c_in.msg.args[1].ty = "float" /\ c_in.msg.args[2].ty = "str"
    /\ Len(c_in.msg.args[2].v) = 4
    /\ Len(c_in.data) > c_out.pos
    /\ RoundTripped

\* C4: create_osc_packet never returns a length larger than the capacity the
\* buffer had when it was called
C4_NoLengthBeyondCapacity ==
    (c_pc = "built" /\ c_out.exc = "none") => c_out.pos <= Len(c_in.data)

\* what C9 says of pack_string(s, data, pos) and of read_string on its output
PaddedStringAt(s, pos) ==
    LET L == c_out.pos - pos
    IN  /\ L % 4 = 0
        /\ Len(s) + 1 <= L /\ L <= Len(s) + 4
        /\ (Len(s) % 4 = 0 => L = Len(s) + 4)
        /\ Len(c_data) >= pos + L
        /\ \A k \in 1..L : c_data[pos + k] = IF k <= Len(s) THEN s[k] ELSE 0
        /\ c_pc = "read" =>
             /\ c_out.rs.exc = "none"
             /\ c_out.rs.str = s
             /\ c_out.rs.pos = pos + L

\* C9 as stated: for every ASCII string and every start position
C9_PaddingAnyStringAnyPos ==
    c_pc \in {"packed", "read"} => PaddedStringAt(c_in.astr, c_in.pos)

\* C9 amended: for every ASCII string s without a null character and every
\* start position 0 <= pos <= len(data), pack_string writes s followed by only
\* null bytes at pos and returns pos + L with L mod 4 = 0 and
\* len(s) + 1 <= L <= len(s) + 4 (4 nulls after a string of 4k bytes), and
\* read_string at pos returns s and pos + L
C9_PaddingInvariant ==
    (c_pc \in {"packed", "read"} /\ NoNull(c_in.astr) /\ c_in.pos <= Len(c_in.data))
        => PaddedStringAt(c_in.astr, c_in.pos)

\* a string of 4 bytes packed in the middle of a buffer of non-null bytes and read back
C9_Witness ==
    /\ c_pc = "read"
    /\ Len(c_in.astr) = 4 /\ NoNull(c_in.astr)
    /\ c_in.pos = 3 /\ Len(c_in.data) > 3
    /\ c_out.pos = 11
    /\ c_out.rs.str = c_in.astr

----------------------------------------------------------------------------
(* Claims about OSCClient, checked under SpecClient *)

\* C5: the client's packet buffer keeps the length it was constructed with
C5_ClientBufferCapacityFixed == Len(cli_buf) = CliBufSize

----------------------------------------------------------------------------
(* Claims about OSCServer.poll, checked under SpecServer *)

PolledDatagram == srv_ret.op = "poll" /\ srv_ret.recv = "data"

\* the datagram on its own is no valid OSC framing: a string without its null,
\* or a scalar running past the end
FramingError(d) == parse_osc_packet(d, Len(d)).exc \in {"ValueError", "struct.error"}

\* C2: a poll() that receives a datagram with a framing error returns normally
\* to its caller: no exception leaves it
C2_MalformedDatagramReturnsNormally ==
    (PolledDatagram /\ FramingError(srv_ret.datagram)) => srv_ret.exc = "none"

\* C3: a failure of the receive that is no timeout leaves poll() as an error
C3_TransportFailurePropagated ==
    (srv_ret.op = "poll" /\ srv_ret.recv = "ioerror") => srv_ret.exc = "OSError"

\* C7: when the first packet_size bytes of the buffer hold no null,
\* parse_osc_packet(data, packet_size) fails
C7_TruncatedAddressFails ==
    (PolledDatagram /\ Index0(SubSeq(srv_buf, 1, srv_ret.datasize), 0) = -1)
        => srv_ret.parsed.exc # "none"

\* C8: a message returned by parse_osc_packet has as many type tags as
\* arguments, the k-th tag naming the type of the k-th argument
C8_ArgsMatchTypes ==
    (PolledDatagram /\ srv_ret.parsed.exc = "none") =>
        LET msg == srv_ret.parsed.msg
        IN  /\ Len(msg.args) = Len(msg.types)
            /\ \A k \in 1..Len(msg.args) : msg.types[k] = TagOf(msg.args[k])

\* the receive buffer of a server that has received nothing before d
FreshBufferWith(d) == d \o Zeros(SrvBufSize - Len(d))

\* C10: the message (or the failure) of a poll() that receives datagram d does
\* not depend on what earlier datagrams left in the buffer: it is the one a
\* server that received nothing before gives for d
C10_SameWhateverEarlierDatagramsLeft ==
    PolledDatagram =>
        srv_ret.parsed = parse_osc_packet(FreshBufferWith(srv_ret.datagram),
                                          srv_ret.datasize)

----------------------------------------------------------------------------
(* Claims about _dispatch, checked under SpecDispatch *)

\* prefix is one of the initial segments of str
IsInitialSegment(prefix, str) ==
    \E n \in 0..Len(str) : prefix = [k \in 1..n |-> str[k]]

TimesCalled(entry) == Cardinality({j \in 1..Len(srv_ret.calls) : srv_ret.calls[j] = entry})

\* C6: _dispatch calls the handler of every entry whose prefix starts the
\* address once, calls no other handler, and raises nothing
C6_DispatchExactlyMatching ==
    srv_ret.op = "_dispatch" =>
        /\ srv_ret.exc = "none"
        /\ \A k \in 1..Len(dispatch_map) :
             TimesCalled(dispatch_map[k]) =
                IF IsInitialSegment(dispatch_map[k][1], srv_ret.parsed.msg.addr)
                THEN 1 ELSE 0
        /\ \A j \in 1..Len(srv_ret.calls) :
             \E k \in 1..Len(dispatch_map) : srv_ret.calls[j] = dispatch_map[k]

\* two entries match the address and both handlers were called
C6_Witness ==
    /\ srv_ret.op = "_dispatch"
    /\ Len(dispatch_map) = 2
    /\ Len(srv_ret.calls) = 2
    /\ srv_ret.calls[1] # srv_ret.calls[2]
    /\ Len(srv_ret.parsed.msg.addr) = 3

====
